---- MODULE Spec2Model ----
(***************************************************************************)
(* Model of src-tauri/src/main.rs: the Tauri shell that launches the       *)
(* Python backend (start_backend), the check_microphone_permission stub    *)
(* and the setup hook of main().                                           *)
(*                                                                         *)
(* Paths (PathBuf) are sequences of components.  Option<T> is a set with   *)
(* at most one element.  Result<String,String> is a record                 *)
(* [ok, text, arg]: text is the literal / format string and arg the path   *)
(* formatted into it (<<>> when the message has no argument).              *)
(***************************************************************************)
EXTENDS Naturals, Sequences, FiniteSets

\* Number of start_backend calls (startup task + UI commands) in one run.
MaxCalls == 3
\* Number of check_microphone_permission commands in one run.
MaxMicCalls == 2

VARIABLES
    appState,     \* "init" | "setup" | "running"   (main / Builder::run)
    calls,        \* per call of start_backend: its position and locals
    children,     \* OS: child processes spawned so far, in spawn order
    micReplies,   \* values returned by check_microphone_permission so far
    resourceDir,  \* platform: what resource_dir() yields (Option<PathBuf>)
    files,        \* filesystem: interpreter files that exist
    spawnable     \* OS: programs for which Command::spawn returns Ok

vars == <<appState, calls, children, micReplies, resourceDir, files, spawnable>>

CallIds == 1..MaxCalls

---------------------------------------------------------------------------
\* Paths

PathBufFrom(s) == <<s>>

Join(p, c) == Append(p, c)

\* The resource directories the platform may report.
ResourceDirs == {<<"res">>}

\* line 14
python_path(resource_dir) == Join(Join(Join(resource_dir, "backend"), "python"), "python")

\* line 15
backend_path(resource_dir) == Join(Join(resource_dir, "backend"), "main.py")

BundledPaths == {python_path(d) : d \in ResourceDirs}

SystemNames == {PathBufFrom("python3"), PathBufFrom("python")}

Programs == BundledPaths \cup SystemNames

---------------------------------------------------------------------------
\* Results

Ok(text, arg) == [ok |-> TRUE, text |-> text, arg |-> arg]

Err(text) == [ok |-> FALSE, text |-> text, arg |-> <<>>]

ResourceDirError == Err("Failed to get resource directory")

AllFailedError == Err("Failed to start backend with any Python executable")

\* Variant: the message is formatted with a fixed name instead of the loop variable.
StartedMessageFixed(python_exe) == Ok("Backend started successfully with {:?}", PathBufFrom("python"))

StartedMessage(python_exe) == Ok("Backend started successfully with {:?}", python_exe)

---------------------------------------------------------------------------
\* start_backend

\* A call that has not been made yet.
NoCall == [pc |-> "none", origin |-> "none", resource_dir |-> {},
           python_executables |-> <<>>, attempts |-> <<>>, result |-> {}]

\* Variant: "python" listed before "python3".
python_executablesSwapped(resource_dir) ==
    << python_path(resource_dir), PathBufFrom("python"), PathBufFrom("python3") >>

\* Variant: the bundled path is listed only when a file exists there.
python_executablesIfPresent(resource_dir) ==
    (IF python_path(resource_dir) \in files THEN << python_path(resource_dir) >> ELSE <<>>)
        \o << PathBufFrom("python3"), PathBufFrom("python") >>

\* lines 18-22: the vec of candidates, in order
python_executables(resource_dir) ==
    << python_path(resource_dir), PathBufFrom("python3"), PathBufFrom("python") >>

\* Command::new(exe).arg(backend_path).stdout(piped).stderr(piped)
CommandFor(python_exe, script, by) ==
    [program |-> python_exe, args |-> <<script>>,
     stdout |-> "piped", stderr |-> "piped", by |-> by]

\* .spawn(): the OS accepts the request or not
Spawn(python_exe) == python_exe \in spawnable

\* Variant: a failed lookup falls back to the current directory instead of returning.
AfterLookupDefaultDir(cr, rd) ==
    LET d == IF rd = {} THEN <<".">> ELSE CHOOSE x \in rd : TRUE IN
    [cr EXCEPT !.pc = "loop", !.resource_dir = {d},
               !.python_executables = python_executables(d)]

\* lines 10-22: the lookup, `?` on None, and the locals built from the directory
AfterLookup(cr, rd) ==
    IF rd = {}
    THEN [cr EXCEPT !.pc = "done", !.result = {ResourceDirError}]
    ELSE LET d == CHOOSE x \in rd : TRUE IN
         [cr EXCEPT !.pc = "loop", !.resource_dir = rd,
                    !.python_executables = python_executables(d)]

\* Variant: Ok(_) records the message but does not return from the loop.
AfterSpawnNoReturn(cr, python_exe, ok) ==
    LET tried == [cr EXCEPT !.attempts = Append(@, [exe |-> python_exe, ok |-> ok])] IN
    IF ok
    THEN [tried EXCEPT !.python_executables = Tail(@), !.result = {StartedMessage(python_exe)}]
    ELSE [tried EXCEPT !.python_executables = Tail(@)]

\* Variant: Err(_) breaks out of the loop instead of continuing.
AfterSpawnGiveUp(cr, python_exe, ok) ==
    LET tried == [cr EXCEPT !.attempts = Append(@, [exe |-> python_exe, ok |-> ok])] IN
    IF ok
    THEN [tried EXCEPT !.pc = "done", !.result = {StartedMessage(python_exe)}]
    ELSE [tried EXCEPT !.python_executables = <<>>]

\* lines 30-33: the match on the spawn result of the current candidate
AfterSpawn(cr, python_exe, ok) ==
    LET tried == [cr EXCEPT !.attempts = Append(@, [exe |-> python_exe, ok |-> ok])] IN
    IF ok
    THEN [tried EXCEPT !.pc = "done", !.result = {StartedMessage(python_exe)}]
    ELSE [tried EXCEPT !.python_executables = Tail(@)]

\* lines 8-22: entry of start_backend up to the loop
Lookup(c) ==
    /\ calls[c].pc = "ready"
    /\ calls' = [calls EXCEPT ![c] = AfterLookup(calls[c], resourceDir)]
    /\ UNCHANGED <<appState, children, micReplies, resourceDir, files, spawnable>>

\* Variant: the candidate is spawned once to probe it and once more to run it.
TryCandidateDoubleSpawn(c) ==
    /\ calls[c].pc = "loop"
    /\ calls[c].python_executables # <<>>
    /\ LET python_exe == Head(calls[c].python_executables)
           d == CHOOSE x \in calls[c].resource_dir : TRUE
           ok == Spawn(python_exe)
           cmd == CommandFor(python_exe, backend_path(d), c)
       IN /\ children' = IF ok THEN Append(Append(children, cmd), cmd) ELSE children
          /\ calls' = [calls EXCEPT ![c] = AfterSpawn(calls[c], python_exe, ok)]
    /\ UNCHANGED <<appState, micReplies, resourceDir, files, spawnable>>

\* Variant: a call that finds a backend already spawned reports success without spawning.
TryCandidateUnlessRunning(c) ==
    /\ calls[c].pc = "loop"
    /\ calls[c].python_executables # <<>>
    /\ LET python_exe == Head(calls[c].python_executables)
           d == CHOOSE x \in calls[c].resource_dir : TRUE
           ok == Spawn(python_exe)
       IN IF children # <<>>
          THEN /\ children' = children
               /\ calls' = [calls EXCEPT ![c] =
                              [@ EXCEPT !.pc = "done", !.result = {StartedMessage(children[1].program)}]]
          ELSE /\ children' = IF ok THEN Append(children, CommandFor(python_exe, backend_path(d), c))
                                    ELSE children
               /\ calls' = [calls EXCEPT ![c] = AfterSpawn(calls[c], python_exe, ok)]
    /\ UNCHANGED <<appState, micReplies, resourceDir, files, spawnable>>

\* lines 24-34: one iteration of the for loop
TryCandidate(c) ==
    /\ calls[c].pc = "loop"
    /\ calls[c].python_executables # <<>>
    /\ LET python_exe == Head(calls[c].python_executables)
           d == CHOOSE x \in calls[c].resource_dir : TRUE
           ok == Spawn(python_exe)
       IN /\ children' = IF ok THEN Append(children, CommandFor(python_exe, backend_path(d), c))
                               ELSE children
          /\ calls' = [calls EXCEPT ![c] = AfterSpawn(calls[c], python_exe, ok)]
    /\ UNCHANGED <<appState, micReplies, resourceDir, files, spawnable>>

\* line 36: the loop ran out of candidates
Exhausted(c) ==
    /\ calls[c].pc = "loop"
    /\ calls[c].python_executables = <<>>
    /\ calls' = [calls EXCEPT ![c] = [@ EXCEPT !.pc = "done", !.result = {AllFailedError}]]
    /\ UNCHANGED <<appState, children, micReplies, resourceDir, files, spawnable>>

---------------------------------------------------------------------------
\* Commands invoked from the front-end and the setup hook

\* The next call slot (calls are numbered in the order they begin).
Begun == {c \in CallIds : calls[c].pc # "none"}

NewCall(origin) == [NoCall EXCEPT !.pc = "ready", !.origin = origin]

\* lines 52-56: the UI invokes the start_backend command
InvokeStartBackend ==
    /\ appState = "running"
    /\ Cardinality(Begun) < MaxCalls
    /\ calls' = [calls EXCEPT ![Cardinality(Begun) + 1] = NewCall("ui")]
    /\ UNCHANGED <<appState, children, micReplies, resourceDir, files, spawnable>>

\* Variant: the stub reports the permission as denied.
check_microphone_permissionDenied == [ok |-> TRUE, val |-> FALSE]

\* lines 39-43
check_microphone_permission == [ok |-> TRUE, val |-> TRUE]

InvokeCheckMicrophonePermission ==
    /\ appState = "running"
    /\ Len(micReplies) < MaxMicCalls
    /\ micReplies' = Append(micReplies, check_microphone_permission)
    /\ UNCHANGED <<appState, calls, children, resourceDir, files, spawnable>>

\* lines 57-61: the setup closure spawns the launch on the async runtime
SetupDispatch ==
    /\ appState = "init"
    /\ appState' = "setup"
    /\ calls' = [calls EXCEPT ![Cardinality(Begun) + 1] = NewCall("setup")]
    /\ UNCHANGED <<children, micReplies, resourceDir, files, spawnable>>

\* Variant: setup returns only once the launch task has finished.
SetupReturnBlocking ==
    /\ appState = "setup"
    /\ \A c \in CallIds : calls[c].origin = "setup" => calls[c].pc = "done"
    /\ appState' = "running"
    /\ UNCHANGED <<calls, children, micReplies, resourceDir, files, spawnable>>

\* lines 62-64: the closure returns Ok(()) and the application runs
SetupReturn ==
    /\ appState = "setup"
    /\ appState' = "running"
    /\ UNCHANGED <<calls, children, micReplies, resourceDir, files, spawnable>>

---------------------------------------------------------------------------

Init ==
    /\ appState = "init"
    /\ calls = [c \in CallIds |-> NoCall]
    /\ children = <<>>
    /\ micReplies = <<>>
    /\ resourceDir \in {{}} \cup {{d} : d \in ResourceDirs}
    /\ files \in SUBSET BundledPaths
    /\ spawnable \in SUBSET Programs
    /\ (spawnable \cap BundledPaths) \subseteq files

Next ==
    \/ SetupDispatch
    \/ SetupReturn
    \/ InvokeStartBackend
    \/ InvokeCheckMicrophonePermission
    \/ \E c \in CallIds : Lookup(c)
    \/ \E c \in CallIds : TryCandidate(c)
    \/ \E c \in CallIds : Exhausted(c)

Spec == Init /\ [][Next]_vars

\* The main thread runs the setup hook; nothing is assumed of the async runtime.
FairSpec == Spec /\ WF_vars(SetupDispatch) /\ WF_vars(SetupReturn)

TypeOK ==
    /\ appState \in {"init", "setup", "running"}
    /\ \A c \in CallIds : calls[c].pc \in {"none", "ready", "loop", "done"}
    /\ Len(micReplies) <= MaxMicCalls

---------------------------------------------------------------------------
\* Vocabulary of the properties

Done(c) == calls[c].pc = "done"

Resolved(c) == calls[c].resource_dir # {}

Dir(c) == CHOOSE d \in calls[c].resource_dir : TRUE

Result(c) == CHOOSE r \in calls[c].result : TRUE

Succeeded(c) == Done(c) /\ Result(c).ok

Failed(c) == Done(c) /\ ~Result(c).ok

Attempts(c) == calls[c].attempts

ChildrenBy(c) == Cardinality({i \in DOMAIN children : children[i].by = c})

\* The order in which the source lists the interpreters, written out.
DeclaredOrder(d) == << d \o <<"backend", "python", "python">>, <<"python3">>, <<"python">> >>

IsPrefix(s, t) == Len(s) <= Len(t) /\ \A i \in 1..Len(s) : s[i] = t[i]

AttemptedExes(c) == [i \in 1..Len(Attempts(c)) |-> Attempts(c)[i].exe]

---------------------------------------------------------------------------
\* C1 (as amended): when the resource-directory lookup fails, the call has
\* failed as soon as it is past its entry, with the reason
\* "Failed to get resource directory"; it attempted no candidate and spawned
\* no child.
C1_LookupFailure ==
    \A c \in CallIds :
        (calls[c].pc \notin {"none", "ready"} /\ resourceDir = {}) =>
            /\ Done(c)
            /\ calls[c].result = {[ok |-> FALSE, text |-> "Failed to get resource directory", arg |-> <<>>]}
            /\ Attempts(c) = <<>>
            /\ ChildrenBy(c) = 0

\* C1 as stated: the reason is "resource directory unavailable".
C1_Original ==
    \A c \in CallIds :
        (calls[c].pc \notin {"none", "ready"} /\ resourceDir = {}) =>
            /\ Done(c)
            /\ calls[c].result = {[ok |-> FALSE, text |-> "resource directory unavailable", arg |-> <<>>]}
            /\ Attempts(c) = <<>>
            /\ ChildrenBy(c) = 0

C1_Witness ==
    \E c \in CallIds : Done(c) /\ resourceDir = {} /\ spawnable # {}

\* C2: first-success short-circuit: in every call only the last attempt made
\* can be a successful spawn, a successful spawn ends the call, and a call
\* whose first candidate spawned made exactly one attempt.
C2_ShortCircuit ==
    \A c \in CallIds :
        /\ \A i \in 1..Len(Attempts(c)) :
              Attempts(c)[i].ok => (i = Len(Attempts(c)) /\ Done(c))
        /\ (Len(Attempts(c)) >= 1 /\ Attempts(c)[1].ok) => Len(Attempts(c)) = 1

C2_Witness ==
    \E c \in CallIds :
        /\ Done(c) /\ Len(Attempts(c)) = 1 /\ Attempts(c)[1].ok
        /\ {<<"python3">>, <<"python">>} \subseteq spawnable

\* C3: with the resource directory resolved, a finished call is a Failure
\* exactly when no candidate of the list can be spawned, and a Failure comes
\* only after all three candidates were attempted and failed.
C3_FailureIffAllFail ==
    \A c \in CallIds :
        (Done(c) /\ Resolved(c)) =>
            /\ ~Result(c).ok <=>
                  (\A i \in 1..3 : DeclaredOrder(Dir(c))[i] \notin spawnable)
            /\ ~Result(c).ok =>
                  /\ Len(Attempts(c)) = 3
                  /\ \A i \in 1..3 : ~Attempts(c)[i].ok
                  /\ {Attempts(c)[i].exe : i \in 1..3} =
                         {DeclaredOrder(Dir(c))[i] : i \in 1..3}

C3_Witness ==
    \E c \in CallIds : Failed(c) /\ Resolved(c) /\ Len(Attempts(c)) = 3

\* C4: the attempts of a call are a prefix of the declared order
\* [bundled, "python3", "python"]; every attempt but the last failed; and
\* when only the last candidate can spawn, the finished call made exactly
\* the three attempts in that order.
C4_DeclaredOrder ==
    \A c \in CallIds :
        Resolved(c) =>
            /\ IsPrefix(AttemptedExes(c), DeclaredOrder(Dir(c)))
            /\ \A i \in 1..Len(Attempts(c)) : i < Len(Attempts(c)) => ~Attempts(c)[i].ok
            /\ (Done(c) /\ spawnable \cap Programs = {<<"python">>}) =>
                  Attempts(c) = << [exe |-> DeclaredOrder(Dir(c))[1], ok |-> FALSE],
                                   [exe |-> <<"python3">>, ok |-> FALSE],
                                   [exe |-> <<"python">>, ok |-> TRUE] >>

C4_Witness ==
    \E c \in CallIds :
        /\ Done(c) /\ Len(Attempts(c)) = 3
        /\ ~Attempts(c)[1].ok /\ ~Attempts(c)[2].ok /\ Attempts(c)[3].ok

\* C5: a call spawns at most one child: none while it has not succeeded,
\* none when it returns Failure, exactly one when it returns Success.
C5_AtMostOneChild ==
    \A c \in CallIds :
        /\ ChildrenBy(c) <= 1
        /\ Failed(c) => ChildrenBy(c) = 0
        /\ Succeeded(c) => ChildrenBy(c) = 1

C5_Witness ==
    \E c \in CallIds :
        /\ Succeeded(c) /\ ChildrenBy(c) = 1 /\ Len(Attempts(c)) = 2
        /\ <<"python">> \in spawnable

\* C6: the interpreter named in a success message is the one whose spawn
\* succeeded: the program of the call's child, the call's last attempt, and
\* the first candidate in declared order that can be spawned.
C6_MessageNamesSpawned ==
    \A c \in CallIds :
        Succeeded(c) =>
            /\ Result(c).text = "Backend started successfully with {:?}"
            /\ Result(c).arg \in spawnable
            /\ Attempts(c)[Len(Attempts(c))] = [exe |-> Result(c).arg, ok |-> TRUE]
            /\ \E i \in DOMAIN children :
                  children[i].by = c /\ children[i].program = Result(c).arg
            /\ \E i \in 1..3 :
                  /\ DeclaredOrder(Dir(c))[i] = Result(c).arg
                  /\ \A j \in 1..(i-1) : DeclaredOrder(Dir(c))[j] \notin spawnable

C6_Witness ==
    \E c \in CallIds : Succeeded(c) /\ Result(c).arg = <<"python3">>

\* C7: setup dispatches exactly one launch task; setup returns and the
\* application reaches "running" without any step of that task being needed
\* (only the main thread is assumed to make progress); no step of the task
\* changes the application's state, whatever its outcome.
SetupCalls == {c \in CallIds : calls[c].origin = "setup"}

C7_StartupIntegration ==
    /\ [](appState = "init" => SetupCalls = {})
    /\ [](appState # "init" => Cardinality(SetupCalls) = 1)
    /\ [][\A c \in CallIds :
            (calls[c].origin = "setup" /\ calls'[c] # calls[c]) => appState' = appState]_vars
    /\ [][appState = "running" => appState' = "running"]_vars
    /\ <>(appState = "running")

C7_Witness ==
    \E c \in SetupCalls : appState = "running" /\ calls[c].pc = "ready"

\* C8: every invocation of check_microphone_permission returns Ok(true) and
\* changes nothing else: no call, no child, no application or platform state.
C8_MicrophoneStub ==
    [][micReplies' # micReplies =>
          /\ micReplies' = Append(micReplies, [ok |-> TRUE, val |-> TRUE])
          /\ UNCHANGED <<appState, calls, children, resourceDir, files, spawnable>>]_vars

C8_Witness ==
    /\ Len(micReplies) >= 2
    /\ children # <<>>
    /\ \E c \in CallIds : calls[c].pc = "loop"

\* C9 (as amended): the bundled path resource_dir/backend/python/python is
\* always the first of the three candidates, whether or not a file exists
\* there; when none exists its spawn is still attempted, first, and fails,
\* before "python3" and then "python" are tried.
C9_BundledAlwaysCandidate ==
    \A c \in CallIds :
        Resolved(c) =>
            /\ (calls[c].pc = "loop" /\ Attempts(c) = <<>>) =>
                  calls[c].python_executables = DeclaredOrder(Dir(c))
            /\ Len(Attempts(c)) >= 1 =>
                  /\ Attempts(c)[1].exe = DeclaredOrder(Dir(c))[1]
                  /\ DeclaredOrder(Dir(c))[1] \notin files => ~Attempts(c)[1].ok
            /\ (Done(c) /\ DeclaredOrder(Dir(c))[1] \notin files) => Len(Attempts(c)) >= 2

\* C9 as stated: with no bundled interpreter the list holds only "python3"
\* and "python", and the bundled path is never attempted.
C9_Original ==
    \A c \in CallIds :
        (Resolved(c) /\ DeclaredOrder(Dir(c))[1] \notin files) =>
            /\ calls[c].pc = "loop" =>
                  \A i \in 1..Len(calls[c].python_executables) :
                      calls[c].python_executables[i] \in {<<"python3">>, <<"python">>}
            /\ \A i \in 1..Len(Attempts(c)) :
                  Attempts(c)[i].exe # DeclaredOrder(Dir(c))[1]

C9_Witness ==
    \E c \in CallIds :
        /\ Done(c) /\ Resolved(c) /\ DeclaredOrder(Dir(c))[1] \notin files
        /\ Attempts(c)[1].exe = DeclaredOrder(Dir(c))[1]

\* C10: under every interleaving of the startup task and UI calls, the
\* children spawned never outnumber the calls begun, and a finished call's
\* result is the one its own lookup and its own attempts determine, the same
\* it would return running alone.
ResultOf(rd, attempts) ==
    IF rd = {} THEN [ok |-> FALSE, text |-> "Failed to get resource directory", arg |-> <<>>]
    ELSE IF \E i \in 1..Len(attempts) : attempts[i].ok
         THEN [ok |-> TRUE, text |-> "Backend started successfully with {:?}",
               arg |-> attempts[CHOOSE i \in 1..Len(attempts) : attempts[i].ok].exe]
         ELSE [ok |-> FALSE, text |-> "Failed to start backend with any Python executable",
               arg |-> <<>>]

RECURSIVE AloneAttempts(_)
AloneAttempts(cands) ==
    IF cands = <<>> THEN <<>>
    ELSE IF Head(cands) \in spawnable
         THEN << [exe |-> Head(cands), ok |-> TRUE] >>
         ELSE << [exe |-> Head(cands), ok |-> FALSE] >> \o AloneAttempts(Tail(cands))

C10_CallsIndependent ==
    /\ Len(children) <= Cardinality(Begun)
    /\ \A c \in CallIds :
          Done(c) =>
              /\ calls[c].resource_dir = resourceDir
              /\ Resolved(c) => Attempts(c) = AloneAttempts(DeclaredOrder(Dir(c)))
              /\ Result(c) = ResultOf(calls[c].resource_dir, Attempts(c))

C10_Witness ==
    \E c, d \in CallIds :
        /\ calls[c].origin = "setup" /\ calls[d].origin = "ui"
        /\ Succeeded(d)
        /\ calls[c].pc = "loop" /\ Len(Attempts(c)) >= 1
====
